---- MODULE Spec2Model ----
(***************************************************************************)
(* A model of the mugo transpiler (src/transpiler/transpiler.go): the      *)
(* comment-ordered output sink, the declaration, statement and expression  *)
(* handlers, and Transpile's loop over the declarations of one parsed      *)
(* file.  Syntax trees are records carrying the fields of go/ast the code  *)
(* reads; positions are token.Pos values (1 + byte offset); texts are the  *)
(* strings the code formats.                                               *)
(***************************************************************************)
EXTENDS Integers, Sequences, FiniteSets, TLC

VARIABLES
    f,      \* the parsed file: [Decls, Imports, Comments, lines]
    o,      \* the output sink built at transpiler.go:84
    tmps,   \* the temporary sinks of the calls being rendered, innermost last
    stack,  \* the handler calls in progress, innermost first
    pc,     \* where Transpile is: "imports", "decls", "indecl", "return", "done", "panic"
    idx,    \* index of the current element of the loop Transpile is in
    ret,    \* the error Transpile returned (pc = "done") or the panic (pc = "panic")
    wmax    \* history: the largest node position passed to Writef so far

vars == <<f, o, tmps, stack, pc, idx, ret, wmax>>

(***************************************************************************)
(* Error values.  A Go error is nil or carries a message; Errorf prefixes  *)
(* the 1-based line.  A run-time panic unwinds through every caller.       *)
(***************************************************************************)
NilErr == [kind |-> "nil", line |-> 0, msg |-> ""]

ConstructErr(l, m) == [kind |-> "error", line |-> l, msg |-> m]

PlainErr(m) == [kind |-> "error", line |-> 0, msg |-> m]

WriteErr == [kind |-> "write", line |-> 0, msg |-> "write failed"]

Panic(m) == [kind |-> "panic", line |-> 0, msg |-> m]

IsNil(e) == e.kind = "nil"

(***************************************************************************)
(* go/ast nodes, with the fields the transpiler reads.  Pos() follows      *)
(* go/ast: an expression statement starts where its expression starts, a   *)
(* binary expression where its left operand starts, and so on.             *)
(***************************************************************************)
Nil == [kind |-> "nil", pos |-> 0]

Ident(p, name) == [kind |-> "Ident", pos |-> p, Name |-> name]

BasicLit(p, k, v) == [kind |-> "BasicLit", pos |-> p, Kind |-> k, Value |-> v]

BinaryExpr(x, op, y) == [kind |-> "BinaryExpr", pos |-> x.pos, X |-> x, Op |-> op, Y |-> y]

UnaryExpr(p, op, x) == [kind |-> "UnaryExpr", pos |-> p, Op |-> op, X |-> x]

CallExpr(fun, args) == [kind |-> "CallExpr", pos |-> fun.pos, Fun |-> fun, Args |-> args]

SelectorExpr(x, sel) == [kind |-> "SelectorExpr", pos |-> x.pos, X |-> x, Sel |-> sel]

StarExpr(p, x) == [kind |-> "StarExpr", pos |-> p, X |-> x]

ParenExpr(p, x) == [kind |-> "ParenExpr", pos |-> p, X |-> x]

ArrayType(p, elt) == [kind |-> "ArrayType", pos |-> p, Elt |-> elt]

Ellipsis(p, elt) == [kind |-> "Ellipsis", pos |-> p, Elt |-> elt]

InterfaceType(p) == [kind |-> "InterfaceType", pos |-> p]

MapType(p, k, v) == [kind |-> "MapType", pos |-> p, Key |-> k, Value |-> v]

Field(names, typ) ==
    [kind |-> "Field", pos |-> IF Len(names) > 0 THEN names[1].pos ELSE typ.pos,
     Names |-> names, Type |-> typ]

FieldList(p, list) == [kind |-> "FieldList", pos |-> p, List |-> list]

FuncType(p, params, results) ==
    [kind |-> "FuncType", pos |-> p, Params |-> params, Results |-> results]

ExprStmt(x) == [kind |-> "ExprStmt", pos |-> x.pos, X |-> x]

AssignStmt(lhs, tok, rhs) ==
    [kind |-> "AssignStmt", pos |-> lhs[1].pos, Lhs |-> lhs, Tok |-> tok, Rhs |-> rhs]

IncDecStmt(x, tok) == [kind |-> "IncDecStmt", pos |-> x.pos, X |-> x, Tok |-> tok]

BlockStmt(p, list) == [kind |-> "BlockStmt", pos |-> p, List |-> list]

IfStmt(p, init, cond, body, els) ==
    [kind |-> "IfStmt", pos |-> p, Init |-> init, Cond |-> cond, Body |-> body, Else |-> els]

ReturnStmt(p, results) == [kind |-> "ReturnStmt", pos |-> p, Results |-> results]

ValueSpec(names, typ, values, isConst) ==
    [kind |-> "ValueSpec", pos |-> names[1].pos, Names |-> names, Type |-> typ,
     Values |-> values, ObjKindCon |-> isConst]

ImportSpec(path) == [kind |-> "ImportSpec", pos |-> path.pos, Path |-> path]

TypeSpec(name, typ) == [kind |-> "TypeSpec", pos |-> name.pos, Name |-> name, Type |-> typ]

GenDecl(p, tok, specs) == [kind |-> "GenDecl", pos |-> p, Tok |-> tok, Specs |-> specs]

FuncDecl(recv, name, typ, body) ==
    [kind |-> "FuncDecl", pos |-> typ.pos, Recv |-> recv, Name |-> name, Type |-> typ,
     Body |-> body]

Comment(p, text) == [pos |-> p, Text |-> text]

CommentGroup(list) == [pos |-> list[1].pos, List |-> list]

(***************************************************************************)
(* The writer behind the sink.  An io.Writer may fail; failAt is the       *)
(* number of the Write call that fails (0: none fails).  buf holds what    *)
(* was written, one chunk per Write, each tagged with the position of the  *)
(* comment or node it was written for.                                     *)
(***************************************************************************)
Writer(k) == [buf |-> <<>>, calls |-> 0, failAt |-> k]

Buffer == Writer(0)

Chunk(s, p) == [s |-> s, src |-> p]

Fprintf(w, s, p) ==
    LET n == w.calls + 1
    IN  IF n = w.failAt
        THEN [w |-> [w EXCEPT !.calls = n], err |-> WriteErr]
        ELSE [w |-> [w EXCEPT !.calls = n,
                              !.buf = IF s = "" THEN @ ELSE Append(@, Chunk(s, p))],
              err |-> NilErr]

RECURSIVE Concat(_)
Concat(chunks) ==
    IF chunks = <<>> THEN "" ELSE chunks[1].s \o Concat(Tail(chunks))

BufferString(w) == Concat(w.buf)

RECURSIVE Join(_, _)
Join(strs, sep) ==
    IF strs = <<>> THEN ""
    ELSE IF Len(strs) = 1 THEN strs[1]
    ELSE strs[1] \o sep \o Join(Tail(strs), sep)

(* output (transpiler.go:120-127). *)
Output(w, lines, last, comments) ==
    [out |-> w, lines |-> lines, lastNode |-> last, c |-> comments, err |-> NilErr]

(* The inner loop of Writef (transpiler.go:136-142): the lines of one group. *)
RECURSIVE FlushLines(_, _)
FlushLines(s, list) ==
    IF list = <<>> THEN s
    ELSE LET r == Fprintf(s.out, list[1].Text \o "\n", list[1].pos)
         IN  IF ~IsNil(r.err)
             THEN [s EXCEPT !.out = r.w, !.err = r.err]
             ELSE FlushLines([s EXCEPT !.out = r.w], Tail(list))

(* The outer loop of Writef (transpiler.go:135-144). *)
RECURSIVE FlushGroups(_, _)
FlushGroups(s, n) ==
    IF Len(s.c) # 0 /\ n.pos > s.c[1].pos
    THEN LET t == FlushLines(s, s.c[1].List)
         IN  IF ~IsNil(t.err) THEN t
             ELSE FlushGroups([t EXCEPT !.c = Tail(@)], n)
    ELSE s

(* Variants of Writef with one line of the flush loop changed; the        *)
(* properties of Writef below tell each of them from Writef.               *)
\* "if" for the "for" of line 135: at most one group is flushed per call.
WritefOneGroup(s, n, text) ==
    IF IsNil(s.err)
    THEN LET t == IF Len(s.c) # 0 /\ n.pos > s.c[1].pos
                  THEN LET u == FlushLines(s, s.c[1].List)
                       IN  IF ~IsNil(u.err) THEN u ELSE [u EXCEPT !.c = Tail(@)]
                  ELSE s
         IN  IF ~IsNil(t.err) THEN t
             ELSE LET r == Fprintf(t.out, text, n.pos)
                  IN  [t EXCEPT !.out = r.w, !.err = r.err]
    ELSE s

\* The pop of line 143 is lost: the flushed groups stay in the list.
WritefKeep(s, n, text) ==
    IF IsNil(s.err)
    THEN LET t == FlushGroups(s, n)
         IN  IF ~IsNil(t.err) THEN t
             ELSE LET r == Fprintf(t.out, text, n.pos)
                  IN  [t EXCEPT !.out = r.w, !.err = r.err, !.c = s.c]
    ELSE s

\* The text is written before the comments are flushed.
WritefTextFirst(s, n, text) ==
    IF IsNil(s.err)
    THEN LET r == Fprintf(s.out, text, n.pos)
         IN  IF ~IsNil(r.err) THEN [s EXCEPT !.out = r.w, !.err = r.err]
             ELSE FlushGroups([s EXCEPT !.out = r.w], n)
    ELSE s

\* The test of o.err at line 134 is missing.
WritefNoGuard(s, n, text) ==
    LET t == FlushGroups(s, n)
        r == Fprintf(t.out, text, n.pos)
    IN  [t EXCEPT !.out = r.w, !.err = IF IsNil(r.err) THEN @ ELSE r.err]

(* Writef (transpiler.go:131-149). *)
Writef(s, n, text) ==
    IF IsNil(s.err)
    THEN LET t == FlushGroups(s, n)
         IN  IF ~IsNil(t.err) THEN t
             ELSE LET r == Fprintf(t.out, text, n.pos)
                  IN  [t EXCEPT !.out = r.w, !.err = r.err]
    ELSE s

(* findLine and Errorf (transpiler.go:151-162). *)
RECURSIVE findLineFrom(_, _, _)
findLineFrom(lines, p, l) ==
    IF Len(lines) > l /\ p >= lines[l + 1] THEN findLineFrom(lines, p, l + 1) ELSE l + 1

findLine(s, p) == findLineFrom(s.lines, p, 0)

Errorf(s, n, m) == ConstructErr(findLine(s, n.pos), m)

(***************************************************************************)
(* The handlers.  A handler's control flow depends only on the syntax tree *)
(* it is given, so each handler is modelled by the steps its body takes    *)
(* for that tree, in order: a call of out.Writef, a call of another        *)
(* handler (whose error, if any, the caller returns at once), an explicit  *)
(* return of an error, and the steps of handleCallExpr on its temporary    *)
(* sink.  The steps are run by the actions below, one Writef at a time.    *)
(***************************************************************************)
Ref(n) == [kind |-> n.kind, pos |-> n.pos]

Step(op, n, text, fn, sink, err) ==
    [op |-> op, n |-> n, text |-> text, fn |-> fn, sink |-> sink, err |-> err]

\* out.Writef(n, text)
W(n, text) == Step("Writef", Ref(n), text, "", "out", NilErr)

\* if err := fn(out, n); err != nil { return err }
Call(fn, n) == Step("call", n, "", fn, "out", NilErr)

\* if err := fn(tmp, n); err != nil { return err }
CallTmp(fn, n) == Step("call", n, "", fn, "tmp", NilErr)

\* return err
Return(err) == Step("return", Nil, "", "", "out", err)

RECURSIVE Flatten(_)
Flatten(ss) == IF ss = <<>> THEN <<>> ELSE ss[1] \o Flatten(Tail(ss))

(* tokenStr (transpiler.go:252-267). *)
tokenStr(kind, isConst) ==
    CASE kind = "INT" -> (IF isConst THEN "const int" ELSE "int")
      [] kind = "STRING" -> (IF isConst THEN "const char * const" ELSE "const char *")
      [] OTHER -> ""

(* guessType (transpiler.go:199-222).  The unchecked type assertion of     *)
(* vs.Type to an identifier at line 207 panics for any other type node.    *)
guessType(vs) ==
    IF Len(vs.Values) > 1
    THEN [kind |-> "ILLEGAL", lit |-> "", err |-> PlainErr("unsupported # of values")]
    ELSE IF Len(vs.Values) = 0
    THEN IF vs.Type.kind # "Ident"
         THEN [kind |-> "ILLEGAL", lit |-> "",
               err |-> Panic("interface conversion: not *ast.Ident")]
         ELSE CASE vs.Type.Name = "int" -> [kind |-> "INT", lit |-> "0", err |-> NilErr]
                [] vs.Type.Name = "string" ->
                       [kind |-> "STRING", lit |-> "\"\"", err |-> NilErr]
                [] OTHER -> [kind |-> "ILLEGAL", lit |-> "",
                             err |-> PlainErr("unsupported type: " \o vs.Type.Name)]
    ELSE IF vs.Values[1].kind # "BasicLit"
    THEN [kind |-> "ILLEGAL", lit |-> "", err |-> PlainErr("unsupported value")]
    ELSE [kind |-> vs.Values[1].Kind, lit |-> vs.Values[1].Value, err |-> NilErr]

(* isValueConst (transpiler.go:224-226). *)
isValueConst(vs) == vs.ObjKindCon

\* A variant of handleValueSpec that writes the names of a spec on one line.
handleValueSpecJoined(out, vs) ==
    IF Len(vs.Names) = 0
    THEN <<Return(Errorf(out, vs, "unsupported # of value names"))>>
    ELSE LET g == guessType(vs)
             typ == tokenStr(g.kind, isValueConst(vs))
         IN  IF g.err.kind = "panic" THEN <<Return(g.err)>>
             ELSE IF ~IsNil(g.err) THEN <<Return(Errorf(out, vs, g.err.msg))>>
             ELSE IF typ = ""
             THEN <<Return(Errorf(out, vs, "unsupported literal kind: " \o g.kind))>>
             ELSE <<W(vs, Join(<<typ,
                                 Join([i \in 1..Len(vs.Names) |-> vs.Names[i].Name], ", "),
                                 "=", g.lit>>, " ") \o ";\n")>>

(* handleValueSpec (transpiler.go:229-249). *)
handleValueSpec(out, vs) ==
    IF Len(vs.Names) = 0
    THEN <<Return(Errorf(out, vs, "unsupported # of value names"))>>
    ELSE LET g == guessType(vs)
             typ == tokenStr(g.kind, isValueConst(vs))
         IN  IF g.err.kind = "panic" THEN <<Return(g.err)>>
             ELSE IF ~IsNil(g.err) THEN <<Return(Errorf(out, vs, g.err.msg))>>
             ELSE IF typ = ""
             THEN <<Return(Errorf(out, vs, "unsupported literal kind: " \o g.kind))>>
             ELSE [i \in 1..Len(vs.Names) |->
                      W(vs, Join(<<typ, vs.Names[i].Name, "=", g.lit>>, " ") \o ";\n")]

(* handleGenDecl (transpiler.go:180-197). *)
handleGenDecl(out, gd) ==
    [i \in 1..Len(gd.Specs) |->
        LET s == gd.Specs[i]
        IN  CASE s.kind = "ValueSpec" -> Call("handleValueSpec", s)
              [] s.kind = "ImportSpec" -> W(s, "")
              [] OTHER -> Return(Errorf(out, s, "unsupported spec"))]

(* exprTypeToType (transpiler.go:276-315): [name, extra, err]. *)
RECURSIVE exprTypeToType(_, _)
exprTypeToType(out, n) ==
    CASE n.kind = "ArrayType" ->
             LET r == exprTypeToType(out, n.Elt)
             IN  IF ~IsNil(r.err) THEN [name |-> "", extra |-> FALSE, err |-> r.err]
                 ELSE [name |-> "*" \o r.name, extra |-> r.extra, err |-> NilErr]
      [] n.kind = "Ellipsis" ->
             LET r == exprTypeToType(out, n.Elt)
             IN  [name |-> r.name, extra |-> TRUE, err |-> r.err]
      [] n.kind = "FuncType" ->
             [name |-> "", extra |-> FALSE,
              err |-> Errorf(out, n, "function pointers are not supported")]
      [] n.kind = "Ident" -> [name |-> n.Name, extra |-> FALSE, err |-> NilErr]
      [] n.kind = "InterfaceType" -> [name |-> "void *", extra |-> FALSE, err |-> NilErr]
      [] n.kind = "SelectorExpr" ->
             LET x == exprTypeToType(out, n.X)
                 s == exprTypeToType(out, n.Sel)
             IN  IF ~IsNil(x.err) THEN [name |-> "", extra |-> FALSE, err |-> x.err]
                 ELSE IF ~IsNil(s.err) THEN [name |-> "", extra |-> FALSE, err |-> s.err]
                 ELSE [name |-> x.name \o "." \o s.name, extra |-> FALSE, err |-> NilErr]
      [] n.kind = "StarExpr" ->
             LET x == exprTypeToType(out, n.X)
             IN  IF ~IsNil(x.err) THEN [name |-> "", extra |-> x.extra, err |-> x.err]
                 ELSE [name |-> "*" \o x.name, extra |-> x.extra, err |-> NilErr]
      [] OTHER -> [name |-> "", extra |-> FALSE,
                   err |-> Errorf(out, n, "unexpected param type")]

(* The inner loop of extractArgumentsType (transpiler.go:340-346). *)
Repeat(t, mult) == [i \in 1..mult |-> t]

\* A variant of the loop that adds one type per field, whatever the number
\* of names the field binds.
RECURSIVE argTypesPerField(_, _, _)
argTypesPerField(out, fields, types) ==
    IF fields = <<>> THEN [types |-> types, err |-> NilErr]
    ELSE LET arg == fields[1]
             r == exprTypeToType(out, arg.Type)
         IN  IF ~IsNil(r.err) THEN [types |-> <<>>, err |-> r.err]
             ELSE IF r.extra
             THEN [types |-> <<>>, err |-> Errorf(out, arg, "unsupported param type")]
             ELSE argTypesPerField(out, Tail(fields), Append(types, r.name))

\* A variant of the loop without the test of extra (lines 337-339).
RECURSIVE argTypesVariadic(_, _, _)
argTypesVariadic(out, fields, types) ==
    IF fields = <<>> THEN [types |-> types, err |-> NilErr]
    ELSE LET arg == fields[1]
             r == exprTypeToType(out, arg.Type)
             mult == IF Len(arg.Names) = 0 THEN 1 ELSE Len(arg.Names)
         IN  IF ~IsNil(r.err) THEN [types |-> <<>>, err |-> r.err]
             ELSE argTypesVariadic(out, Tail(fields), types \o Repeat(r.name, mult))

(* The loop of extractArgumentsType over the fields (transpiler.go:331-347). *)
RECURSIVE argTypes(_, _, _)
argTypes(out, fields, types) ==
    IF fields = <<>> THEN [types |-> types, err |-> NilErr]
    ELSE LET arg == fields[1]
             r == exprTypeToType(out, arg.Type)
             mult == IF Len(arg.Names) = 0 THEN 1 ELSE Len(arg.Names)
         IN  IF ~IsNil(r.err) THEN [types |-> <<>>, err |-> r.err]
             ELSE IF r.extra
             THEN [types |-> <<>>, err |-> Errorf(out, arg, "unsupported param type")]
             ELSE argTypes(out, Tail(fields), types \o Repeat(r.name, mult))

(* extractArgumentsType (transpiler.go:318-349). *)
extractArgumentsType(out, fd) ==
    IF fd.Recv.kind # "nil" /\ Len(fd.Recv.List) # 1
    THEN [types |-> <<>>,
          err |-> Errorf(out, fd.Recv, "expect only one receiver; please fix code")]
    ELSE LET fields == IF fd.Recv.kind # "nil" /\ fd.Recv.List[1].Type.kind = "StarExpr"
                       THEN <<fd.Recv.List[1]>> ELSE <<>>
         IN  argTypes(out, fields \o fd.Type.Params.List, <<>>)

(* handleFuncDecl (transpiler.go:351-374). *)
handleFuncDecl(out, fd) ==
    LET res == fd.Type.Results
        rt == IF res.kind = "nil" THEN [name |-> "void", extra |-> FALSE, err |-> NilErr]
              ELSE exprTypeToType(out, res.List[1].Type)
        params == extractArgumentsType(out, fd)
    IN  IF res.kind # "nil" /\ Len(res.List) # 1
        THEN <<Return(Errorf(out, fd, "unsupported return type"))>>
        ELSE IF ~IsNil(rt.err) THEN <<Return(rt.err)>>
        ELSE IF ~IsNil(params.err) THEN <<Return(params.err)>>
        ELSE <<W(fd, rt.name \o " " \o fd.Name.Name \o "(" \o Join(params.types, " ")
                     \o ") {\n"),
               Call("handleBlockStmt", fd.Body),
               W(fd.Body, "}\n")>>

(* handleDecl (transpiler.go:167-176). *)
handleDecl(out, d) ==
    CASE d.kind = "GenDecl" -> <<Call("handleGenDecl", d)>>
      [] d.kind = "FuncDecl" -> <<Call("handleFuncDecl", d)>>
      [] OTHER -> <<Return(Errorf(out, d, "unsupported decl"))>>

(* typeFromExpr (transpiler.go:536-552). *)
typeFromExpr(e) ==
    CASE e.kind = "BasicLit" -> tokenStr(e.Kind, FALSE)
      [] e.kind = "Ident" -> e.Name
      [] OTHER -> ""

(* The loop over st.Lhs of an assignment (transpiler.go:393-403). *)
assignLhs(st) ==
    Flatten([i \in 1..Len(st.Lhs) |->
        (IF i # 1 THEN <<W(st.Lhs[i], ", ")>>
         ELSE IF st.Tok = ":=" THEN <<W(st, typeFromExpr(st.Rhs[i]) \o " ")>>
         ELSE <<>>)
        \o <<Call("handleExpr", st.Lhs[i])>>])

(* The loops over st.Rhs of an assignment (transpiler.go:405-412) and over *)
(* st.Results of a return (transpiler.go:438-446).                         *)
exprList(es) ==
    Flatten([i \in 1..Len(es) |->
        (IF i # 1 THEN <<W(es[i], ", ")>> ELSE <<>>) \o <<Call("handleExpr", es[i])>>])

(* handleStmt (transpiler.go:377-452). *)
handleStmt(out, s) ==
    <<W(s, "  ")>> \o
    CASE s.kind = "ExprStmt" -> <<Call("handleExpr", s.X), W(s, ";\n")>>
      [] s.kind = "AssignStmt" ->
             IF s.Tok # ":=" /\ s.Tok # "="
             THEN <<Return(Errorf(out, s, "unexpected assignment: " \o s.Tok))>>
             ELSE assignLhs(s) \o <<W(s, " = ")>> \o exprList(s.Rhs) \o <<W(s, ";\n")>>
      [] s.kind = "IfStmt" ->
             <<W(s, "if ("), Call("handleExpr", s.Cond), W(s, ") {\n"),
               Call("handleBlockStmt", s.Body), W(s, "}")>>
             \o (IF s.Else.kind = "nil" THEN <<>>
                 ELSE IF s.Else.kind # "BlockStmt"
                 THEN <<Return(Errorf(out, s.Else, "unsupported else statement"))>>
                 ELSE <<W(s, " else {\n"), Call("handleBlockStmt", s.Else), W(s, "}")>>)
             \o <<W(s, "\n")>>
      [] s.kind = "ReturnStmt" ->
             <<W(s, "return ")>> \o exprList(s.Results) \o <<W(s, ";\n")>>
      [] OTHER -> <<Return(Errorf(out, s, "unsupported statement"))>>

(* handleBlockStmt (transpiler.go:456-463).  A nil block (a function       *)
(* declared without a body) is dereferenced at line 457.                   *)
handleBlockStmt(out, bs) ==
    IF bs.kind = "nil" THEN <<Return(Panic("nil pointer dereference"))>>
    ELSE [i \in 1..Len(bs.List) |-> Call("handleStmt", bs.List[i])]

(* handleCallExpr (transpiler.go:466-484): tmp is created, each argument   *)
(* is rendered through tmp into the buffer (reset first) and collected,    *)
(* then the call is written to out with the collected arguments.           *)
handleCallExpr(out, c) ==
    LET ident == exprTypeToType(out, c.Fun)
    IN  <<Step("tmp", Ref(c), "", "", "out", NilErr)>>
        \o Flatten([i \in 1..Len(c.Args) |->
               <<Step("reset", Ref(c.Args[i]), "", "", "tmp", NilErr),
                 CallTmp("handleExpr", c.Args[i]),
                 Step("collect", Ref(c.Args[i]), "", "", "out", NilErr)>>])
        \o (IF ~IsNil(ident.err) THEN <<Return(ident.err)>>
            ELSE <<Step("WritefCall", Ref(c), ident.name, "", "out", NilErr)>>)

(* handleBinaryExpr (transpiler.go:487-496). *)
handleBinaryExpr(out, be) ==
    <<Call("handleExpr", be.X), W(be, be.Op), Call("handleExpr", be.Y)>>

(* handleExpr (transpiler.go:500-531). *)
handleExpr(out, e) ==
    CASE e.kind = "BasicLit" -> <<W(e, e.Value)>>
      [] e.kind = "BinaryExpr" -> <<Call("handleBinaryExpr", e)>>
      [] e.kind = "CallExpr" -> <<Call("handleCallExpr", e)>>
      [] e.kind = "Ident" -> <<W(e, e.Name)>>
      [] e.kind = "SelectorExpr" ->
             <<Call("handleExpr", e.X), W(e, "."), Call("handleExpr", e.Sel)>>
      [] e.kind = "StarExpr" -> <<W(e, "*"), Call("handleExpr", e.X)>>
      [] e.kind = "UnaryExpr" -> <<W(e, e.Op), Call("handleExpr", e.X)>>
      [] OTHER -> <<Return(Errorf(out, e, "unsupported expr"))>>

(* The steps of handler fn for node n. *)
Body(fn, out, n) ==
    CASE fn = "handleDecl" -> handleDecl(out, n)
      [] fn = "handleGenDecl" -> handleGenDecl(out, n)
      [] fn = "handleValueSpec" -> handleValueSpec(out, n)
      [] fn = "handleFuncDecl" -> handleFuncDecl(out, n)
      [] fn = "handleBlockStmt" -> handleBlockStmt(out, n)
      [] fn = "handleStmt" -> handleStmt(out, n)
      [] fn = "handleExpr" -> handleExpr(out, n)
      [] fn = "handleBinaryExpr" -> handleBinaryExpr(out, n)
      [] fn = "handleCallExpr" -> handleCallExpr(out, n)

(***************************************************************************)
(* Running the steps.  A frame is a handler call in progress: the sink it  *)
(* was given (0: the main sink o; k > 0: tmps[k]), the temporary sink it   *)
(* created (handleCallExpr only), the arguments it collected, and the      *)
(* steps it has left.  m is [o, tmps, stack, rv]; rv is the error the      *)
(* outermost handler returned, once the stack is empty.                    *)
(***************************************************************************)
Frame(fn, n, k, sink) ==
    [fn |-> fn, n |-> Ref(n), out |-> k, tmp |-> 0, args |-> <<>>,
     code |-> Body(fn, sink, n)]

SinkAt(m, k) == IF k = 0 THEN m.o ELSE m.tmps[k]

WithSink(m, k, s) ==
    IF k = 0 THEN [m EXCEPT !.o = s] ELSE [m EXCEPT !.tmps[k] = s]

(* A handler returns err to its caller; a caller that gets an error        *)
(* returns it in turn ("if err != nil { return err }").  A temporary sink  *)
(* dies with the handleCallExpr call that made it.                         *)
RECURSIVE Leave(_, _)
Leave(m, err) ==
    LET fr == m.stack[1]
        rest == Tail(m.stack)
        m1 == [m EXCEPT !.stack = rest,
                        !.tmps = IF fr.tmp > 0 THEN SubSeq(@, 1, fr.tmp - 1) ELSE @]
    IN  IF rest = <<>> THEN [m1 EXCEPT !.rv = err]
        ELSE IF ~IsNil(err) THEN Leave(m1, err)
        ELSE [m1 EXCEPT !.stack[1].code = Tail(@)]

(* A handler is called on the sink the calling step names. *)
Enter(m, ins) ==
    LET fr == m.stack[1]
        k == IF ins.sink = "tmp" THEN fr.tmp ELSE fr.out
    IN  [m EXCEPT !.stack = <<Frame(ins.fn, ins.n, k, SinkAt(m, k))>> \o @]

\* A variant in which the temporary sink is given the comment list of out.
NewTmpShared(m, ins) ==
    LET fr == m.stack[1]
        tmp == Output(Buffer, SinkAt(m, fr.out).lines, ins.n.pos, SinkAt(m, fr.out).c)
    IN  [m EXCEPT !.tmps = Append(@, tmp),
                  !.stack[1].tmp = Len(m.tmps) + 1,
                  !.stack[1].code = Tail(@)]

(* tmp := &output{buf, out.content, out.lines, c, nil, nil}  (line 469) *)
NewTmp(m, ins) ==
    LET fr == m.stack[1]
        tmp == Output(Buffer, SinkAt(m, fr.out).lines, ins.n.pos, <<>>)
    IN  [m EXCEPT !.tmps = Append(@, tmp),
                  !.stack[1].tmp = Len(m.tmps) + 1,
                  !.stack[1].code = Tail(@)]

(* buf.Reset()  (line 471) *)
Reset(m, ins) ==
    LET fr == m.stack[1]
    IN  [m EXCEPT !.tmps[fr.tmp].out.buf = <<>>, !.stack[1].code = Tail(@)]

(* args = append(args, buf.String()); out.lastNode = a  (lines 475-476) *)
Collect(m, ins) ==
    LET fr == m.stack[1]
        m1 == WithSink(m, fr.out, [SinkAt(m, fr.out) EXCEPT !.lastNode = ins.n.pos])
    IN  [m1 EXCEPT !.stack[1].args = Append(@, BufferString(m.tmps[fr.tmp].out)),
                   !.stack[1].code = Tail(@)]

(* The steps that follow, up to the next call of Writef or to the return   *)
(* of the outermost handler.                                               *)
RECURSIVE Run(_)
Run(m) ==
    IF m.stack = <<>> THEN m
    ELSE IF m.stack[1].code = <<>> THEN Run(Leave(m, NilErr))
    ELSE LET ins == m.stack[1].code[1]
         IN  CASE ins.op \in {"Writef", "WritefCall"} -> m
               [] ins.op = "call" -> Run(Enter(m, ins))
               [] ins.op = "return" -> Run(Leave(m, ins.err))
               [] ins.op = "tmp" -> Run(NewTmp(m, ins))
               [] ins.op = "reset" -> Run(Reset(m, ins))
               [] ins.op = "collect" -> Run(Collect(m, ins))

(* The text of the Writef call a frame is about to make: for the call of   *)
(* line 482, "%s(%s)" of the callee and the collected arguments.           *)
TextOf(fr) ==
    LET ins == fr.code[1]
    IN  IF ins.op = "WritefCall"
        THEN ins.text \o "(" \o Join(fr.args, ", ") \o ")"
        ELSE ins.text

(* The call of Writef the innermost frame is about to make. *)
DoWritef(m) ==
    LET fr == m.stack[1]
        s == Writef(SinkAt(m, fr.out), fr.code[1].n, TextOf(fr))
    IN  [WithSink(m, fr.out, s) EXCEPT !.stack[1].code = Tail(@)]

(***************************************************************************)
(* The inputs.  A source file is "package p" followed by declarations, one *)
(* per block; a block is laid out at position b (the token.Pos of its      *)
(* first byte) and gives its length, its syntax tree, the comment groups   *)
(* its comment slots can hold, and the offsets of its newlines.  A slot    *)
(* holds its comment or blanks of the same length, so positions do not     *)
(* depend on which comments are present.                                   *)
(***************************************************************************)
\* Go source, every comment slot filled: // h1\n// h2\npackage p\n
FileHead(b) ==
    [at |-> b, len |-> 22,
     node |->
         Nil,
     slots |-> <<
            CommentGroup(<<Comment(b, "// h1"), Comment(b + 6, "// h2")>>)>>,
     nl |-> <<5, 11, 21>>]

\* Go source, every comment slot filled: // t\n
FileTail(b) ==
    [at |-> b, len |-> 5,
     node |->
         Nil,
     slots |-> <<
            CommentGroup(<<Comment(b, "// t")>>)>>,
     nl |-> <<4>>]

\* Go source, every comment slot filled: // g\nvar x int\n
TplVarX(b) ==
    [at |-> b, len |-> 15,
     node |->
         GenDecl(b + 5, "var", <<ValueSpec(<<Ident(b + 9, "x")>>, Ident(b + 11, "int"), <<>>, FALSE)>>),
     slots |-> <<
            CommentGroup(<<Comment(b, "// g")>>)>>,
     nl |-> <<4, 14>>]

\* Go source, every comment slot filled: // g\nfunc h() {\n\tg()\n}\n
TplFuncH(b) ==
    [at |-> b, len |-> 23,
     node |->
         FuncDecl(Nil, Ident(b + 10, "h"), FuncType(b + 5, FieldList(b + 11, <<>>), Nil),
             BlockStmt(b + 14, <<ExprStmt(CallExpr(Ident(b + 17, "g"), <<>>))>>)),
     slots |-> <<
            CommentGroup(<<Comment(b, "// g")>>)>>,
     nl |-> <<4, 15, 20, 22>>]

\* Go source, every comment slot filled: // g\nimport "x"\n
TplImport(b) ==
    [at |-> b, len |-> 16,
     node |->
         GenDecl(b + 5, "import", <<ImportSpec(BasicLit(b + 12, "STRING", "\"x\""))>>),
     slots |-> <<
            CommentGroup(<<Comment(b, "// g")>>)>>,
     nl |-> <<4, 15>>]

\* Go source, every comment slot filled: // g\nvar n, m, k int\n
TplVarNMK(b) ==
    [at |-> b, len |-> 21,
     node |->
         GenDecl(b + 5, "var", <<ValueSpec(<<Ident(b + 9, "n"), Ident(b + 12, "m"), Ident(b + 15, "k")>>,
             Ident(b + 17, "int"), <<>>, FALSE)>>),
     slots |-> <<
            CommentGroup(<<Comment(b, "// g")>>)>>,
     nl |-> <<4, 20>>]

\* Go source, every comment slot filled: // g\nconst (\n\ts = "x"\n\tn = 7\n)\n
TplConstGrp(b) ==
    [at |-> b, len |-> 31,
     node |->
         GenDecl(b + 5, "const",
             <<ValueSpec(<<Ident(b + 14, "s")>>, Nil, <<BasicLit(b + 18, "STRING", "\"x\"")>>, TRUE),
               ValueSpec(<<Ident(b + 23, "n")>>, Nil, <<BasicLit(b + 27, "INT", "7")>>, TRUE)>>),
     slots |-> <<
            CommentGroup(<<Comment(b, "// g")>>)>>,
     nl |-> <<4, 12, 21, 28, 30>>]

\* Go source, every comment slot filled: // g\nvar a, c = 1\n
TplVarShared(b) ==
    [at |-> b, len |-> 18,
     node |->
         GenDecl(b + 5, "var", <<ValueSpec(<<Ident(b + 9, "a"), Ident(b + 12, "c")>>, Nil,
             <<BasicLit(b + 16, "INT", "1")>>, FALSE)>>),
     slots |-> <<
            CommentGroup(<<Comment(b, "// g")>>)>>,
     nl |-> <<4, 17>>]

\* Go source, every comment slot filled: // g\nvar s string\n
TplVarStr(b) ==
    [at |-> b, len |-> 18,
     node |->
         GenDecl(b + 5, "var", <<ValueSpec(<<Ident(b + 9, "s")>>, Ident(b + 11, "string"), <<>>, FALSE)>>),
     slots |-> <<
            CommentGroup(<<Comment(b, "// g")>>)>>,
     nl |-> <<4, 17>>]

\* Go source, every comment slot filled: // g\nvar p *int\n
TplVarPtr(b) ==
    [at |-> b, len |-> 16,
     node |->
         GenDecl(b + 5, "var", <<ValueSpec(<<Ident(b + 9, "p")>>, StarExpr(b + 11, Ident(b + 12, "int")),
             <<>>, FALSE)>>),
     slots |-> <<
            CommentGroup(<<Comment(b, "// g")>>)>>,
     nl |-> <<4, 15>>]

\* Go source, every comment slot filled: // g\nvar w float64\n
TplVarFloat(b) ==
    [at |-> b, len |-> 19,
     node |->
         GenDecl(b + 5, "var", <<ValueSpec(<<Ident(b + 9, "w")>>, Ident(b + 11, "float64"), <<>>, FALSE)>>),
     slots |-> <<
            CommentGroup(<<Comment(b, "// g")>>)>>,
     nl |-> <<4, 18>>]

\* Go source, every comment slot filled: // g\nconst (\n\ta = 1\n\tc\n)\n
TplConstRepeat(b) ==
    [at |-> b, len |-> 25,
     node |->
         GenDecl(b + 5, "const",
             <<ValueSpec(<<Ident(b + 14, "a")>>, Nil, <<BasicLit(b + 18, "INT", "1")>>, TRUE),
               ValueSpec(<<Ident(b + 21, "c")>>, Nil, <<>>, TRUE)>>),
     slots |-> <<
            CommentGroup(<<Comment(b, "// g")>>)>>,
     nl |-> <<4, 12, 19, 22, 24>>]

\* Go source, every comment slot filled: // g\nvar a, c = 1, 2\n
TplVarTwoVals(b) ==
    [at |-> b, len |-> 21,
     node |->
         GenDecl(b + 5, "var", <<ValueSpec(<<Ident(b + 9, "a"), Ident(b + 12, "c")>>, Nil,
             <<BasicLit(b + 16, "INT", "1"), BasicLit(b + 19, "INT", "2")>>, FALSE)>>),
     slots |-> <<
            CommentGroup(<<Comment(b, "// g")>>)>>,
     nl |-> <<4, 20>>]

\* Go source, every comment slot filled: // g\nvar e = 1.5\n
TplVarFloatLit(b) ==
    [at |-> b, len |-> 17,
     node |->
         GenDecl(b + 5, "var", <<ValueSpec(<<Ident(b + 9, "e")>>, Nil,
             <<BasicLit(b + 13, "FLOAT", "1.5")>>, FALSE)>>),
     slots |-> <<
            CommentGroup(<<Comment(b, "// g")>>)>>,
     nl |-> <<4, 16>>]

\* Go source, every comment slot filled: // g\nvar v = x\n
TplVarIdent(b) ==
    [at |-> b, len |-> 15,
     node |->
         GenDecl(b + 5, "var", <<ValueSpec(<<Ident(b + 9, "v")>>, Nil, <<Ident(b + 13, "x")>>, FALSE)>>),
     slots |-> <<
            CommentGroup(<<Comment(b, "// g")>>)>>,
     nl |-> <<4, 14>>]

\* Go source, every comment slot filled: // g\ntype T int\n
TplTypeT(b) ==
    [at |-> b, len |-> 16,
     node |->
         GenDecl(b + 5, "type", <<TypeSpec(Ident(b + 10, "T"), Ident(b + 12, "int"))>>),
     slots |-> <<
            CommentGroup(<<Comment(b, "// g")>>)>>,
     nl |-> <<4, 15>>]

\* Go source, every comment slot filled: // g\nfunc loop() {\n\tanalogWrite(led, < a > brightness)\n\tb := b + d\n\tif b == 0 || b == 255 {\n\t\td = -d\n\t} else {\n\t\td = 1\n\t}\n\t// e\n}\n
TplFuncLoop(b) ==
    [at |-> b, len |-> 132,
     node |->
         FuncDecl(Nil, Ident(b + 10, "loop"), FuncType(b + 5, FieldList(b + 14, <<>>), Nil),
             BlockStmt(b + 17,
               <<ExprStmt(CallExpr(Ident(b + 20, "analogWrite"),
                     <<Ident(b + 32, "led"), Ident(b + 45, "brightness")>>)),
                 AssignStmt(<<Ident(b + 58, "b")>>, ":=",
                     <<BinaryExpr(Ident(b + 63, "b"), "+", Ident(b + 67, "d"))>>),
                 IfStmt(b + 70, Nil,
                     BinaryExpr(BinaryExpr(Ident(b + 73, "b"), "==", BasicLit(b + 78, "INT", "0")), "||",
                                BinaryExpr(Ident(b + 83, "b"), "==", BasicLit(b + 88, "INT", "255"))),
                     BlockStmt(b + 92, <<AssignStmt(<<Ident(b + 96, "d")>>, "=",
                         <<UnaryExpr(b + 100, "-", Ident(b + 101, "d"))>>)>>),
                     BlockStmt(b + 111, <<AssignStmt(<<Ident(b + 115, "d")>>, "=",
                         <<BasicLit(b + 119, "INT", "1")>>)>>))>>)),
     slots |-> <<
            CommentGroup(<<Comment(b, "// g")>>),
            CommentGroup(<<Comment(b + 37, "/* a */")>>),
            CommentGroup(<<Comment(b + 125, "// e")>>)>>,
     nl |-> <<4, 18, 56, 68, 93, 102, 112, 120, 123, 129, 131>>]

\* Go source, every comment slot filled: // g\nfunc (p *T) add(a, c int, s string) int {\n\treturn a + c\n}\n
TplFuncAdd(b) ==
    [at |-> b, len |-> 63,
     node |->
         FuncDecl(FieldList(b + 10, <<Field(<<Ident(b + 11, "p")>>, StarExpr(b + 13, Ident(b + 14, "T")))>>),
             Ident(b + 17, "add"),
             FuncType(b + 5,
                 FieldList(b + 20, <<Field(<<Ident(b + 21, "a"), Ident(b + 24, "c")>>, Ident(b + 26, "int")),
                                 Field(<<Ident(b + 31, "s")>>, Ident(b + 33, "string"))>>),
                 FieldList(b + 41, <<Field(<<>>, Ident(b + 41, "int"))>>)),
             BlockStmt(b + 45, <<ReturnStmt(b + 48,
                 <<BinaryExpr(Ident(b + 55, "a"), "+", Ident(b + 59, "c"))>>)>>)),
     slots |-> <<
            CommentGroup(<<Comment(b, "// g")>>)>>,
     nl |-> <<4, 46, 60, 62>>]

\* Go source, every comment slot filled: // g\nfunc ty(s []string, v interface{}, q pkg.T) *int {\n\treturn\n}\n
TplFuncTypes(b) ==
    [at |-> b, len |-> 66,
     node |->
         FuncDecl(Nil, Ident(b + 10, "ty"),
             FuncType(b + 5,
                 FieldList(b + 12, <<Field(<<Ident(b + 13, "s")>>, ArrayType(b + 15, Ident(b + 17, "string"))),
                                 Field(<<Ident(b + 25, "v")>>, InterfaceType(b + 27)),
                                 Field(<<Ident(b + 40, "q")>>,
                                       SelectorExpr(Ident(b + 42, "pkg"), Ident(b + 46, "T")))>>),
                 FieldList(b + 49, <<Field(<<>>, StarExpr(b + 49, Ident(b + 50, "int")))>>)),
             BlockStmt(b + 54, <<ReturnStmt(b + 57, <<>>)>>)),
     slots |-> <<
            CommentGroup(<<Comment(b, "// g")>>)>>,
     nl |-> <<4, 55, 63, 65>>]

\* Go source, every comment slot filled: // g\nfunc two() (a, c int) {\n\treturn c, a\n}\n
TplFuncTwo(b) ==
    [at |-> b, len |-> 44,
     node |->
         FuncDecl(Nil, Ident(b + 10, "two"),
             FuncType(b + 5, FieldList(b + 13, <<>>),
                 FieldList(b + 16, <<Field(<<Ident(b + 17, "a"), Ident(b + 20, "c")>>, Ident(b + 22, "int"))>>)),
             BlockStmt(b + 27, <<ReturnStmt(b + 30, <<Ident(b + 37, "c"), Ident(b + 40, "a")>>)>>)),
     slots |-> <<
            CommentGroup(<<Comment(b, "// g")>>)>>,
     nl |-> <<4, 28, 41, 43>>]

\* Go source, every comment slot filled: // g\nfunc pair() (int, string) {\n\treturn 1, "x"\n}\n
TplFuncPair(b) ==
    [at |-> b, len |-> 50,
     node |->
         FuncDecl(Nil, Ident(b + 10, "pair"),
             FuncType(b + 5, FieldList(b + 14, <<>>),
                 FieldList(b + 17, <<Field(<<>>, Ident(b + 18, "int")),
                                 Field(<<>>, Ident(b + 23, "string"))>>)),
             BlockStmt(b + 31, <<ReturnStmt(b + 34,
                 <<BasicLit(b + 41, "INT", "1"), BasicLit(b + 44, "STRING", "\"x\"")>>)>>)),
     slots |-> <<
            CommentGroup(<<Comment(b, "// g")>>)>>,
     nl |-> <<4, 32, 47, 49>>]

\* Go source, every comment slot filled: // g\nfunc swap() {\n\ta, c = c, a\n}\n
TplFuncSwap(b) ==
    [at |-> b, len |-> 34,
     node |->
         FuncDecl(Nil, Ident(b + 10, "swap"), FuncType(b + 5, FieldList(b + 14, <<>>), Nil),
             BlockStmt(b + 17, <<AssignStmt(<<Ident(b + 20, "a"), Ident(b + 23, "c")>>, "=",
                 <<Ident(b + 27, "c"), Ident(b + 30, "a")>>)>>)),
     slots |-> <<
            CommentGroup(<<Comment(b, "// g")>>)>>,
     nl |-> <<4, 18, 31, 33>>]

\* Go source, every comment slot filled: // g\nfunc fi() {\n\tif x := g(); x == 1 {\n\t\th()\n\t}\n}\n
TplFuncIfInit(b) ==
    [at |-> b, len |-> 51,
     node |->
         FuncDecl(Nil, Ident(b + 10, "fi"), FuncType(b + 5, FieldList(b + 12, <<>>), Nil),
             BlockStmt(b + 15,
               <<IfStmt(b + 18,
                     AssignStmt(<<Ident(b + 21, "x")>>, ":=", <<CallExpr(Ident(b + 26, "g"), <<>>)>>),
                     BinaryExpr(Ident(b + 31, "x"), "==", BasicLit(b + 36, "INT", "1")),
                     BlockStmt(b + 38, <<ExprStmt(CallExpr(Ident(b + 42, "h"), <<>>))>>),
                     Nil)>>)),
     slots |-> <<
            CommentGroup(<<Comment(b, "// g")>>)>>,
     nl |-> <<4, 16, 39, 45, 48, 50>>]

\* Go source, every comment slot filled: // g\nfunc inc() {\n\tg()\n\ti++\n\th()\n}\n
TplFuncInc(b) ==
    [at |-> b, len |-> 35,
     node |->
         FuncDecl(Nil, Ident(b + 10, "inc"), FuncType(b + 5, FieldList(b + 13, <<>>), Nil),
             BlockStmt(b + 16,
               <<ExprStmt(CallExpr(Ident(b + 19, "g"), <<>>)),
                 IncDecStmt(Ident(b + 24, "i"), "++"),
                 ExprStmt(CallExpr(Ident(b + 29, "h"), <<>>))>>)),
     slots |-> <<
            CommentGroup(<<Comment(b, "// g")>>)>>,
     nl |-> <<4, 17, 22, 27, 32, 34>>]

\* Go source, every comment slot filled: // g\nfunc ei() {\n\tif a == 1 {\n\t\tg()\n\t} else if c == 2 {\n\t\th()\n\t}\n}\n
TplFuncElseIf(b) ==
    [at |-> b, len |-> 67,
     node |->
         FuncDecl(Nil, Ident(b + 10, "ei"), FuncType(b + 5, FieldList(b + 12, <<>>), Nil),
             BlockStmt(b + 15,
               <<IfStmt(b + 18, Nil,
                     BinaryExpr(Ident(b + 21, "a"), "==", BasicLit(b + 26, "INT", "1")),
                     BlockStmt(b + 28, <<ExprStmt(CallExpr(Ident(b + 32, "g"), <<>>))>>),
                     IfStmt(b + 44, Nil,
                         BinaryExpr(Ident(b + 47, "c"), "==", BasicLit(b + 52, "INT", "2")),
                         BlockStmt(b + 54, <<ExprStmt(CallExpr(Ident(b + 58, "h"), <<>>))>>),
                         Nil))>>)),
     slots |-> <<
            CommentGroup(<<Comment(b, "// g")>>)>>,
     nl |-> <<4, 16, 29, 35, 55, 61, 64, 66>>]

\* Go source, every comment slot filled: // g\nfunc pe() {\n\tx = (a + c)\n}\n
TplFuncParen(b) ==
    [at |-> b, len |-> 32,
     node |->
         FuncDecl(Nil, Ident(b + 10, "pe"), FuncType(b + 5, FieldList(b + 12, <<>>), Nil),
             BlockStmt(b + 15, <<AssignStmt(<<Ident(b + 18, "x")>>, "=",
                 <<ParenExpr(b + 22, BinaryExpr(Ident(b + 23, "a"), "+", Ident(b + 27, "c")))>>)>>)),
     slots |-> <<
            CommentGroup(<<Comment(b, "// g")>>)>>,
     nl |-> <<4, 16, 29, 31>>]

\* Go source, every comment slot filled: // g\nfunc aa() {\n\tx += 1\n}\n
TplFuncAddAssign(b) ==
    [at |-> b, len |-> 27,
     node |->
         FuncDecl(Nil, Ident(b + 10, "aa"), FuncType(b + 5, FieldList(b + 12, <<>>), Nil),
             BlockStmt(b + 15, <<AssignStmt(<<Ident(b + 18, "x")>>, "+=",
                 <<BasicLit(b + 23, "INT", "1")>>)>>)),
     slots |-> <<
            CommentGroup(<<Comment(b, "// g")>>)>>,
     nl |-> <<4, 16, 24, 26>>]

\* Go source, every comment slot filled: // g\nfunc cb(h func()) {\n}\n
TplFuncCb(b) ==
    [at |-> b, len |-> 27,
     node |->
         FuncDecl(Nil, Ident(b + 10, "cb"),
             FuncType(b + 5,
                 FieldList(b + 12, <<Field(<<Ident(b + 13, "h")>>,
                     FuncType(b + 15, FieldList(b + 19, <<>>), Nil))>>),
                 Nil),
             BlockStmt(b + 23, <<>>)),
     slots |-> <<
            CommentGroup(<<Comment(b, "// g")>>)>>,
     nl |-> <<4, 24, 26>>]

\* Go source, every comment slot filled: // g\nfunc va(a int, c ...int) {\n}\n
TplFuncVariadic(b) ==
    [at |-> b, len |-> 34,
     node |->
         FuncDecl(Nil, Ident(b + 10, "va"),
             FuncType(b + 5,
                 FieldList(b + 12, <<Field(<<Ident(b + 13, "a")>>, Ident(b + 15, "int")),
                                 Field(<<Ident(b + 20, "c")>>, Ellipsis(b + 22, Ident(b + 25, "int")))>>),
                 Nil),
             BlockStmt(b + 30, <<>>)),
     slots |-> <<
            CommentGroup(<<Comment(b, "// g")>>)>>,
     nl |-> <<4, 31, 33>>]

\* Go source, every comment slot filled: // g\nfunc (t T) get() int {\n\treturn t.n\n}\n
TplFuncValRecv(b) ==
    [at |-> b, len |-> 42,
     node |->
         FuncDecl(FieldList(b + 10, <<Field(<<Ident(b + 11, "t")>>, Ident(b + 13, "T"))>>),
             Ident(b + 16, "get"),
             FuncType(b + 5, FieldList(b + 19, <<>>),
                 FieldList(b + 22, <<Field(<<>>, Ident(b + 22, "int"))>>)),
             BlockStmt(b + 26, <<ReturnStmt(b + 29,
                 <<SelectorExpr(Ident(b + 36, "t"), Ident(b + 38, "n"))>>)>>)),
     slots |-> <<
            CommentGroup(<<Comment(b, "// g")>>)>>,
     nl |-> <<4, 27, 39, 41>>]

\* Go source, every comment slot filled: // g\nfunc nb() {\n\t{\n\t}\n}\n
TplFuncBlock(b) ==
    [at |-> b, len |-> 25,
     node |->
         FuncDecl(Nil, Ident(b + 10, "nb"), FuncType(b + 5, FieldList(b + 12, <<>>), Nil),
             BlockStmt(b + 15, <<BlockStmt(b + 18, <<>>)>>)),
     slots |-> <<
            CommentGroup(<<Comment(b, "// g")>>)>>,
     nl |-> <<4, 16, 19, 22, 24>>]

\* Go source, every comment slot filled: // g\nfunc mp(m map[int]int) {\n}\n
TplFuncMap(b) ==
    [at |-> b, len |-> 32,
     node |->
         FuncDecl(Nil, Ident(b + 10, "mp"),
             FuncType(b + 5,
                 FieldList(b + 12, <<Field(<<Ident(b + 13, "m")>>,
                     MapType(b + 15, Ident(b + 19, "int"), Ident(b + 23, "int")))>>),
                 Nil),
             BlockStmt(b + 28, <<>>)),
     slots |-> <<
            CommentGroup(<<Comment(b, "// g")>>)>>,
     nl |-> <<4, 29, 31>>]

Tpl(id, b) ==
    CASE id = "VarX" -> TplVarX(b)
      [] id = "FuncH" -> TplFuncH(b)
      [] id = "Import" -> TplImport(b)
      [] id = "VarNMK" -> TplVarNMK(b)
      [] id = "ConstGrp" -> TplConstGrp(b)
      [] id = "VarShared" -> TplVarShared(b)
      [] id = "VarStr" -> TplVarStr(b)
      [] id = "VarPtr" -> TplVarPtr(b)
      [] id = "VarFloat" -> TplVarFloat(b)
      [] id = "ConstRepeat" -> TplConstRepeat(b)
      [] id = "VarTwoVals" -> TplVarTwoVals(b)
      [] id = "VarFloatLit" -> TplVarFloatLit(b)
      [] id = "VarIdent" -> TplVarIdent(b)
      [] id = "TypeT" -> TplTypeT(b)
      [] id = "FuncLoop" -> TplFuncLoop(b)
      [] id = "FuncAdd" -> TplFuncAdd(b)
      [] id = "FuncTypes" -> TplFuncTypes(b)
      [] id = "FuncTwo" -> TplFuncTwo(b)
      [] id = "FuncPair" -> TplFuncPair(b)
      [] id = "FuncSwap" -> TplFuncSwap(b)
      [] id = "FuncIfInit" -> TplFuncIfInit(b)
      [] id = "FuncInc" -> TplFuncInc(b)
      [] id = "FuncElseIf" -> TplFuncElseIf(b)
      [] id = "FuncParen" -> TplFuncParen(b)
      [] id = "FuncAddAssign" -> TplFuncAddAssign(b)
      [] id = "FuncCb" -> TplFuncCb(b)
      [] id = "FuncVariadic" -> TplFuncVariadic(b)
      [] id = "FuncValRecv" -> TplFuncValRecv(b)
      [] id = "FuncBlock" -> TplFuncBlock(b)
      [] id = "FuncMap" -> TplFuncMap(b)

DeclIds ==
    {"VarX", "FuncH", "Import", "VarNMK", "ConstGrp",
     "VarShared", "VarStr", "VarPtr", "VarFloat", "ConstRepeat",
     "VarTwoVals", "VarFloatLit", "VarIdent", "TypeT", "FuncLoop",
     "FuncAdd", "FuncTypes", "FuncTwo", "FuncPair", "FuncSwap",
     "FuncIfInit", "FuncInc", "FuncElseIf", "FuncParen", "FuncAddAssign",
     "FuncCb", "FuncVariadic", "FuncValRecv", "FuncBlock", "FuncMap"}

PlainDecls == {"VarX", "FuncH"}

(* Bounds of the inputs. *)
MaxDecls == 2

MaxComments == 2

MaxFail == 3

(* The declaration sequences: up to MaxDecls declarations, at most one of  *)
(* them outside PlainDecls; an import declaration comes first (the parser  *)
(* accepts imports only before the other declarations).                    *)
UnitIds ==
    {ids \in UNION {[1..n -> DeclIds] : n \in 0..MaxDecls} :
        /\ Cardinality({i \in DOMAIN ids : ids[i] \notin PlainDecls}) <= 1
        /\ \A i \in DOMAIN ids : ids[i] = "Import" => i = 1}

RECURSIVE Blocks(_, _)
Blocks(ids, b) ==
    IF ids = <<>> THEN <<FileTail(b)>>
    ELSE LET t == Tpl(ids[1], b) IN <<t>> \o Blocks(Tail(ids), b + t.len)

Parts(ids) == LET h == FileHead(1) IN <<h>> \o Blocks(ids, 1 + h.len)

RECURSIVE AllSlots(_)
AllSlots(parts) ==
    IF parts = <<>> THEN <<>> ELSE parts[1].slots \o AllSlots(Tail(parts))

RECURSIVE Select(_, _, _)
Select(seq, keep, i) ==
    IF i > Len(seq) THEN <<>>
    ELSE (IF i \in keep THEN <<seq[i]>> ELSE <<>>) \o Select(seq, keep, i + 1)

(* The newline offsets collected at transpiler.go:78-83: 0-based byte      *)
(* offsets into content, in increasing order.                              *)
RECURSIVE Newlines(_)
Newlines(parts) ==
    IF parts = <<>> THEN <<>>
    ELSE [i \in 1..Len(parts[1].nl) |-> parts[1].at - 1 + parts[1].nl[i]]
         \o Newlines(Tail(parts))

RECURSIVE DeclsOf(_)
DeclsOf(parts) ==
    IF parts = <<>> THEN <<>>
    ELSE (IF parts[1].node.kind = "nil" THEN <<>> ELSE <<parts[1].node>>)
         \o DeclsOf(Tail(parts))

RECURSIVE ImportsOf(_)
ImportsOf(decls) ==
    IF decls = <<>> THEN <<>>
    ELSE (IF decls[1].kind = "GenDecl" /\ decls[1].Tok = "import"
          THEN decls[1].Specs ELSE <<>>) \o ImportsOf(Tail(decls))

(* parser.ParseFile with parser.ParseComments (transpiler.go:74): the      *)
(* declarations, the import specs and every comment group, in source order. *)
ParseFile(ids, keep) ==
    LET parts == Parts(ids)
        decls == DeclsOf(parts)
    IN  [Decls |-> decls, Imports |-> ImportsOf(decls),
         Comments |-> Select(AllSlots(parts), keep, 1),
         lines |-> Newlines(parts)]

(***************************************************************************)
(* Transpile (transpiler.go:67-106).                                       *)
(***************************************************************************)
AfterImports(file, i) ==
    IF i <= Len(file.Imports) THEN "imports"
    ELSE IF Len(file.Decls) > 0 THEN "decls" ELSE "return"

Max(a, b) == IF a >= b THEN a ELSE b

(* transpiler.go:68-84: the file is parsed and the sink is built. *)
Init ==
    \E ids \in UnitIds, k \in 0..MaxFail :
        \E keep \in {s \in SUBSET (1..Len(AllSlots(Parts(ids)))) :
                        Cardinality(s) <= MaxComments} :
            /\ f = ParseFile(ids, keep)
            /\ o = Output(Writer(k), f.lines, 0, f.Comments)
            /\ tmps = <<>>
            /\ stack = <<>>
            /\ pc = AfterImports(f, 1)
            /\ idx = 1
            /\ ret = NilErr
            /\ wmax = 0

(* One iteration of the loop over f.Imports (transpiler.go:94-96). *)
TranspileImport ==
    /\ pc = "imports"
    /\ o' = Writef(o, f.Imports[idx], "")
    /\ wmax' = Max(wmax, f.Imports[idx].pos)
    /\ pc' = AfterImports(f, idx + 1)
    /\ idx' = IF pc' = "imports" THEN idx + 1 ELSE 1
    /\ UNCHANGED <<f, tmps, stack, ret>>

(* Where the loop over f.Decls stands once the handlers have run to m: in  *)
(* the middle of handleDecl (the next call of Writef is pending), or past  *)
(* lines 98-103 when handleDecl has returned m.rv.                         *)
Settle(m) ==
    /\ o' = m.o
    /\ tmps' = m.tmps
    /\ stack' = m.stack
    /\ pc' = IF m.stack # <<>> THEN "indecl"
             ELSE IF m.rv.kind = "panic" THEN "panic"
             ELSE IF ~IsNil(m.rv) THEN "done"
             ELSE IF ~IsNil(m.o.err) THEN "return"
             ELSE IF idx < Len(f.Decls) THEN "decls" ELSE "return"
    /\ ret' = IF m.stack = <<>> /\ ~IsNil(m.rv) THEN m.rv ELSE ret
    /\ idx' = IF pc' = "decls" THEN idx + 1 ELSE idx

(* An iteration of the loop over f.Decls begins (transpiler.go:97-98):     *)
(* handleDecl is called and runs up to its first call of Writef.           *)
TranspileDecl ==
    /\ pc = "decls"
    /\ Settle(Run([o |-> o, tmps |-> <<>>, rv |-> NilErr,
                   stack |-> <<Frame("handleDecl", f.Decls[idx], 0, o)>>]))
    /\ UNCHANGED <<f, wmax>>

(* The pending call of Writef is made, and the handlers run on to the next *)
(* one or to the end of the iteration.                                     *)
WritefStep ==
    /\ pc = "indecl"
    /\ Settle(Run(DoWritef([o |-> o, tmps |-> tmps, rv |-> NilErr, stack |-> stack])))
    /\ wmax' = Max(wmax, stack[1].code[1].n.pos)
    /\ UNCHANGED f

\* A variant of the return that first drains the comment list.
TranspileReturnDrain ==
    /\ pc = "return"
    /\ o' = IF IsNil(o.err)
            THEN FlushGroups(o, [kind |-> "File", pos |-> f.lines[Len(f.lines)] + 2])
            ELSE o
    /\ ret' = o'.err
    /\ pc' = "done"
    /\ UNCHANGED <<f, tmps, stack, idx, wmax>>

(* return f, o.err (transpiler.go:105). *)
TranspileReturn ==
    /\ pc = "return"
    /\ ret' = o.err
    /\ pc' = "done"
    /\ UNCHANGED <<f, o, tmps, stack, idx, wmax>>

Next == TranspileImport \/ TranspileDecl \/ WritefStep \/ TranspileReturn

Spec == Init /\ [][Next]_vars

(***************************************************************************)
(* The properties.  The output is read from the chunks the writer took:    *)
(* each chunk carries the position of the comment line or of the node it   *)
(* was written for.                                                        *)
(***************************************************************************)
Drop(s, k) == SubSeq(s, k + 1, Len(s))

IsPrefix(a, b) == Len(a) <= Len(b) /\ a = SubSeq(b, 1, Len(a))

\* The lines of the groups, each unmodified and followed by one newline.
CommentLines(groups) ==
    Flatten([i \in 1..Len(groups) |->
                [j \in 1..Len(groups[i].List) |->
                    Chunk(groups[i].List[j].Text \o "\n", groups[i].List[j].pos)]])

\* The positions of the lines of a group.
LinePos(g) == {g.List[j].pos : j \in DOMAIN g.List}

\* A chunk is a comment line when it was written for a line of a group of
\* the file, and text of a node otherwise.
IsComment(ch) == \E g \in DOMAIN f.Comments : ch.src \in LinePos(f.Comments[g])

IsText(ch) == ~IsComment(ch)

EmittedComments == SelectSeq(o.out.buf, IsComment)

\* The chunks written for the node at position p.
TextAt(p) == SelectSeq(o.out.buf, LAMBDA ch : ch.src = p)

\* The number of groups at the head of c that start before p.
RECURSIVE HeadBefore(_, _)
HeadBefore(c, p) ==
    IF c # <<>> /\ c[1].pos < p THEN 1 + HeadBefore(Tail(c), p) ELSE 0

\* A call of Writef on the main sink is about to be made.
MainCall == pc = "imports" \/ (pc = "indecl" /\ stack[1].out = 0)

\* A call of Writef on a temporary sink is about to be made.
TmpCall == pc = "indecl" /\ stack[1].out # 0

CallNode == IF pc = "imports" THEN Ref(f.Imports[idx]) ELSE stack[1].code[1].n

CallText == IF pc = "imports" THEN "" ELSE TextOf(stack[1])

TextChunks(n, text) == IF text = "" THEN <<>> ELSE <<Chunk(text, n.pos)>>

\* What the call that is made in this step wrote to the main writer.
Written == Drop(o'.out.buf, Len(o.out.buf))

(* C1 as stated: every call Writef(n, text) on a sink with no recorded     *)
(* error emits exactly the pending groups at the head of the list that     *)
(* start before n, in list order, each line unmodified and followed by a   *)
(* newline, all before text, and leaves the other groups pending.  (A      *)
(* temporary sink has no pending groups: a call on it emits none.)         *)
C1_FlushExact ==
    [][(MainCall /\ IsNil(o.err)) =>
         LET h == HeadBefore(o.c, CallNode.pos)
         IN  /\ Written = CommentLines(SubSeq(o.c, 1, h)) \o TextChunks(CallNode, CallText)
             /\ o'.c = Drop(o.c, h)]_vars

(* C1, amended: the statement of C1 holds for every call during which no   *)
(* write fails.  When a write fails during the call, the lines emitted are *)
(* a prefix of the lines of those groups, text is not written, and the     *)
(* group whose line (or whose following text) failed to be written and all *)
(* later groups stay pending.  A call on a temporary sink emits no comment *)
(* and leaves the main sink's list alone.                                  *)
C1_FlushUnlessWriteFails ==
    [][/\ (MainCall /\ IsNil(o.err)) =>
            LET h == HeadBefore(o.c, CallNode.pos)
                all == CommentLines(SubSeq(o.c, 1, h))
            IN  IF IsNil(o'.err)
                THEN /\ Written = all \o TextChunks(CallNode, CallText)
                     /\ o'.c = Drop(o.c, h)
                ELSE /\ IsPrefix(Written, all)
                     /\ \E j \in 0..h :
                           /\ o'.c = Drop(o.c, j)
                           /\ Len(Written) >= Len(CommentLines(SubSeq(o.c, 1, j)))
                           /\ j < h => Len(Written) < Len(CommentLines(SubSeq(o.c, 1, j + 1)))
       /\ TmpCall =>
            /\ tmps[stack[1].out].c = <<>>
            /\ o'.out.buf = o.out.buf
            /\ o'.c = o.c]_vars

\* One call has flushed two groups (three lines) and then written its text.
C1_Witness ==
    /\ IsNil(o.err)
    /\ Len(f.Comments) = 2
    /\ Len(o.out.buf) = 4
    /\ SubSeq(o.out.buf, 1, 3) = CommentLines(f.Comments)
    /\ IsText(o.out.buf[4])
    /\ o.c = <<>>

(* C2: across the Writef calls of a run, whatever the order of the node    *)
(* positions, the pending list is the parser's list with a prefix removed, *)
(* the removed groups are emitted in full, and the comment lines in the    *)
(* output are a prefix of the parser's comment lines in order, so that no  *)
(* group is emitted twice.  Temporary sinks hold and emit no comments.     *)
C2_FrontOnly ==
    /\ \E j \in 0..Len(f.Comments) :
          /\ o.c = Drop(f.Comments, j)
          /\ IsPrefix(CommentLines(SubSeq(f.Comments, 1, j)), EmittedComments)
    /\ IsPrefix(EmittedComments, CommentLines(f.Comments))
    /\ \A k \in DOMAIN tmps :
          /\ tmps[k].c = <<>>
          /\ \A i \in DOMAIN tmps[k].out.buf : IsText(tmps[k].out.buf[i])

\* A node was written after a node that starts later, with one group
\* flushed and one still pending.
C2_Witness ==
    /\ Len(f.Comments) = 2
    /\ Len(o.c) = 1
    /\ EmittedComments # <<>>
    /\ \E i, j \in DOMAIN o.out.buf :
          /\ i < j
          /\ IsText(o.out.buf[i])
          /\ IsText(o.out.buf[j])
          /\ o.out.buf[i].src > o.out.buf[j].src

\* The start of the top-level declaration that position p lies in.
DeclStart(p) ==
    LET starts == {f.Decls[k].pos : k \in DOMAIN f.Decls}
        before == {s \in starts : s <= p}
    IN  IF before = {} THEN 0 ELSE CHOOSE s \in before : \A t \in before : t <= s

(* C3: when Transpile translates the unit without error, the comment lines *)
(* in the output are in the order of their source positions, and every     *)
(* emitted comment line comes before all the text of every declaration     *)
(* that starts after it (hence before the first such declaration).         *)
C3_CommentOrder ==
    (pc = "done" /\ IsNil(ret)) =>
        LET buf == o.out.buf
        IN  \A i \in DOMAIN buf :
                IsComment(buf[i]) =>
                    \A j \in DOMAIN buf :
                        /\ (i < j /\ IsComment(buf[j])) => buf[i].src < buf[j].src
                        /\ (j < i /\ IsText(buf[j])) => DeclStart(buf[j].src) < buf[i].src

\* Two declarations were translated and a comment between them came out
\* between their texts.
C3_Witness ==
    /\ pc = "done"
    /\ IsNil(ret)
    /\ Len(f.Decls) = 2
    /\ \E i, j, k \in DOMAIN o.out.buf :
          /\ i < j
          /\ j < k
          /\ IsText(o.out.buf[i])
          /\ IsComment(o.out.buf[j])
          /\ IsText(o.out.buf[k])
          /\ DeclStart(o.out.buf[i].src) < o.out.buf[j].src
          /\ DeclStart(o.out.buf[k].src) > o.out.buf[j].src

(* C4: when Transpile returns, every group that starts at or after the     *)
(* start of every node that was passed to Writef is still pending and none *)
(* of its lines is in the output.                                          *)
C4_NoFinalDrain ==
    pc = "done" =>
        \A g \in DOMAIN f.Comments :
            f.Comments[g].pos >= wmax =>
                /\ \E i \in DOMAIN o.c : o.c[i] = f.Comments[g]
                /\ \A i \in DOMAIN o.out.buf : o.out.buf[i].src \notin LinePos(f.Comments[g])

\* Transpile returned without error after writing text, with a comment
\* after the last node still pending.
C4_Witness ==
    /\ pc = "done"
    /\ IsNil(ret)
    /\ wmax > 0
    /\ o.out.buf # <<>>
    /\ o.c # <<>>
    /\ o.c[Len(o.c)].pos >= wmax

\* The unit has an if statement that carries an init statement.
HasIfInit ==
    \E k \in DOMAIN f.Decls :
        /\ f.Decls[k].kind = "FuncDecl"
        /\ f.Decls[k].Body.kind = "BlockStmt"
        /\ \E i \in DOMAIN f.Decls[k].Body.List :
              /\ f.Decls[k].Body.List[i].kind = "IfStmt"
              /\ f.Decls[k].Body.List[i].Init.kind # "nil"

(* C5: a unit with a construct outside the supported variants, here an if  *)
(* statement carrying an init statement, makes Transpile return a non-nil  *)
(* error.                                                                  *)
C5_IfInitRejected == (pc = "done" /\ HasIfInit) => ~IsNil(ret)

(* C6: the error Transpile returns is the first error of the run: when a   *)
(* write to the output has failed (a construct error ends the run at once, *)
(* so the failed write came first), Transpile returns the write's error.   *)
C6_FirstErrorReturned == (pc = "done" /\ ~IsNil(o.err)) => ret = o.err

\* Declaration k has been translated in full, with no write failing.
Handled(k) ==
    /\ pc # "imports"
    /\ IsNil(o.err)
    /\ k < idx \/ (k = idx /\ pc \in {"return", "done"} /\ IsNil(ret))

\* The value spec passes type inference.
Passes(vs) ==
    /\ vs.kind = "ValueSpec"
    /\ Len(vs.Names) >= 1
    /\ IsNil(guessType(vs).err)
    /\ tokenStr(guessType(vs).kind, isValueConst(vs)) # ""

(* C7: for a value spec that binds N >= 1 names and passes type inference, *)
(* handleValueSpec writes exactly N lines "<type> <name> = <literal>;", in *)
(* the order of the names.                                                 *)
C7_FanOut ==
    \A k \in DOMAIN f.Decls :
        (Handled(k) /\ f.Decls[k].kind = "GenDecl") =>
            \A i \in DOMAIN f.Decls[k].Specs :
                LET vs == f.Decls[k].Specs[i]
                IN  Passes(vs) =>
                        TextAt(vs.pos) =
                            [n \in 1..Len(vs.Names) |->
                                Chunk(tokenStr(guessType(vs).kind, isValueConst(vs)) \o " "
                                      \o vs.Names[n].Name \o " = " \o guessType(vs).lit
                                      \o ";\n", vs.pos)]

\* A spec of three names was translated into three lines.
C7_Witness ==
    /\ pc = "done"
    /\ IsNil(ret)
    /\ \E k \in DOMAIN f.Decls :
          /\ f.Decls[k].kind = "GenDecl"
          /\ Passes(f.Decls[k].Specs[1])
          /\ Len(f.Decls[k].Specs[1].Names) = 3
          /\ Len(TextAt(f.Decls[k].Specs[1].pos)) = 3

\* Declaration d has a value spec with no initializer whose type is not
\* the identifier int or string; the specs before it pass type inference.
ZeroInitOtherType(d) ==
    /\ d.kind = "GenDecl"
    /\ \E i \in DOMAIN d.Specs :
          /\ d.Specs[i].kind = "ValueSpec"
          /\ Len(d.Specs[i].Names) >= 1
          /\ Len(d.Specs[i].Values) = 0
          /\ ~(d.Specs[i].Type.kind = "Ident" /\ d.Specs[i].Type.Name \in {"int", "string"})
          /\ \A j \in 1..(i - 1) : Passes(d.Specs[j])

(* C8: a value spec with no initializer and an explicit type other than    *)
(* int and string (a pointer, an absent type, ...) ends the translation    *)
(* with an error value returned by Transpile.                              *)
C8_OtherTypeIsError ==
    (pc \in {"done", "panic"} /\ idx \in DOMAIN f.Decls /\ ZeroInitOtherType(f.Decls[idx]))
        => (pc = "done" /\ ret.kind = "error")

\* The unit has an assignment with several targets or values, or a return
\* with several results.
HasMultiValue ==
    \E k \in DOMAIN f.Decls :
        /\ f.Decls[k].kind = "FuncDecl"
        /\ f.Decls[k].Body.kind = "BlockStmt"
        /\ \E i \in DOMAIN f.Decls[k].Body.List :
              LET s == f.Decls[k].Body.List[i]
              IN  \/ s.kind = "AssignStmt" /\ (Len(s.Lhs) > 1 \/ Len(s.Rhs) > 1)
                  \/ s.kind = "ReturnStmt" /\ Len(s.Results) > 1

(* C9: when no write fails, an assignment with more than one target or     *)
(* value, and a return with more than one result, make Transpile fail with *)
(* an error.                                                               *)
C9_ArityEnforced == (pc = "done" /\ IsNil(o.err) /\ HasMultiValue) => ret.kind = "error"

\* The function declares more than one result.
ManyResults(fd) ==
    /\ fd.kind = "FuncDecl"
    /\ fd.Type.Results.kind = "FieldList"
    /\ \/ Len(fd.Type.Results.List) > 1
       \/ \E i \in DOMAIN fd.Type.Results.List : Len(fd.Type.Results.List[i].Names) > 1

(* C10: when no write fails, a function that declares more than one        *)
(* result, several names sharing one type included, fails with an error    *)
(* and no signature line is written for it.                                *)
C10_ManyResultsRejected ==
    \A k \in DOMAIN f.Decls :
        (pc = "done" /\ IsNil(o.err) /\ ManyResults(f.Decls[k])) =>
            (ret.kind = "error" /\ TextAt(f.Decls[k].pos) = <<>>)

\* The spelling of type t in the output.
Mapped(t) == exprTypeToType(o, t).name

\* No receiver or parameter of the function is variadic, and every one of
\* their types has a spelling.
NonVariadic(fd) ==
    /\ fd.Recv.kind = "nil" \/
          \A i \in DOMAIN fd.Recv.List :
              LET r == exprTypeToType(o, fd.Recv.List[i].Type) IN IsNil(r.err) /\ ~r.extra
    /\ \A i \in DOMAIN fd.Type.Params.List :
          LET r == exprTypeToType(o, fd.Type.Params.List[i].Type) IN IsNil(r.err) /\ ~r.extra

\* The entries the parameter list is to have: the receiver's type when it
\* is a pointer, then each field's type once per name it binds.
ExpectedParams(fd) ==
    (IF fd.Recv.kind # "nil" /\ fd.Recv.List[1].Type.kind = "StarExpr"
     THEN <<Mapped(fd.Recv.List[1].Type)>> ELSE <<>>)
    \o Flatten([i \in 1..Len(fd.Type.Params.List) |->
                  LET fl == fd.Type.Params.List[i]
                  IN  [j \in 1..(IF Len(fl.Names) = 0 THEN 1 ELSE Len(fl.Names)) |->
                          Mapped(fl.Type)]])

\* The signature line with the expected parameter list.
ExpectedSignature(fd) ==
    (IF fd.Type.Results.kind = "nil" THEN "void" ELSE Mapped(fd.Type.Results.List[1].Type))
    \o " " \o fd.Name.Name \o "(" \o Join(ExpectedParams(fd), " ") \o ") {\n"

(* C11: for a function without variadic parameters, the parameter list of  *)
(* the emitted signature is the mapped type of a pointer receiver (nothing *)
(* for a value receiver) followed by each parameter field's mapped type    *)
(* once per bound name, types only, joined by single spaces; a function    *)
(* translated in full has exactly one such signature line.                 *)
C11_ParamList ==
    \A k \in DOMAIN f.Decls :
        (f.Decls[k].kind = "FuncDecl" /\ NonVariadic(f.Decls[k])) =>
            /\ \A i \in DOMAIN TextAt(f.Decls[k].pos) :
                  TextAt(f.Decls[k].pos)[i].s = ExpectedSignature(f.Decls[k])
            /\ Handled(k) => Len(TextAt(f.Decls[k].pos)) = 1

\* A method with a pointer receiver and a field of two names was
\* translated: its list has the receiver's type and the type twice.
C11_Witness ==
    /\ pc = "done"
    /\ IsNil(ret)
    /\ \E k \in DOMAIN f.Decls :
          /\ f.Decls[k].kind = "FuncDecl"
          /\ f.Decls[k].Recv.kind # "nil"
          /\ f.Decls[k].Recv.List[1].Type.kind = "StarExpr"
          /\ \E i \in DOMAIN f.Decls[k].Type.Params.List :
                Len(f.Decls[k].Type.Params.List[i].Names) = 2
          /\ Len(TextAt(f.Decls[k].pos)) = 1
          /\ Len(ExpectedParams(f.Decls[k])) = 4

\* A define statement of one target whose value is a binary expression of
\* two identifiers.
DefineOfIdents(s) ==
    /\ s.kind = "AssignStmt"
    /\ s.Tok = ":="
    /\ Len(s.Lhs) = 1
    /\ s.Rhs[1].kind = "BinaryExpr"
    /\ s.Rhs[1].X.kind = "Ident"
    /\ s.Rhs[1].Y.kind = "Ident"

(* C12: for a define statement whose right-hand side is a binary           *)
(* expression of two identifiers, the type token written before the target *)
(* (the second chunk written for the statement, after the indentation) is  *)
(* the text of a right-hand identifier followed by the space, not an empty *)
(* token.                                                                  *)
C12_TypeTokenIsIdentifier ==
    \A k \in DOMAIN f.Decls :
        (Handled(k) /\ f.Decls[k].kind = "FuncDecl") =>
            \A i \in DOMAIN f.Decls[k].Body.List :
                LET s == f.Decls[k].Body.List[i]
                IN  DefineOfIdents(s) =>
                        /\ Len(TextAt(s.pos)) >= 2
                        /\ TextAt(s.pos)[2].s \in {s.Rhs[1].X.Name \o " ", s.Rhs[1].Y.Name \o " "}

\* The 1-based line on which the byte at position p lies: one more than
\* the number of newlines strictly before that byte (p is 1-based, the
\* offsets in f.lines are 0-based).
TrueLine(p) == 1 + Cardinality({i \in DOMAIN f.lines : f.lines[i] < p - 1})

\* The statement kinds handleStmt has a case for.
StmtKinds == {"ExprStmt", "AssignStmt", "IfStmt", "ReturnStmt"}

(* C13: the line reported by Errorf(n, ...) is the 1-based line on which n *)
(* starts.  Here n is the first statement of a function body that          *)
(* handleStmt has no case for (the statements before it are expression,    *)
(* assignment and return statements), and the line is read from the error  *)
(* "unsupported statement" that Transpile returns.                         *)
C13_LineOfNode ==
    (/\ pc = "done"
     /\ ret.kind = "error"
     /\ ret.msg = "unsupported statement"
     /\ idx \in DOMAIN f.Decls) =>
        \A i \in DOMAIN f.Decls[idx].Body.List :
            (/\ f.Decls[idx].Body.List[i].kind \notin StmtKinds
             /\ \A j \in 1..(i - 1) :
                   f.Decls[idx].Body.List[j].kind \in StmtKinds \ {"IfStmt"})
                => ret.line = TrueLine(f.Decls[idx].Body.List[i].pos)

(* C14: once a write has failed inside Writef, the error recorded in the   *)
(* sink is that failure (recorded at the failing write) and no step of the *)
(* rest of the run changes it, the writer or the pending comment list:     *)
(* every later call of Writef on the sink is a no-op.  A temporary sink    *)
(* writes to a buffer and never records an error.                          *)
C14_ErrorIsSticky ==
    [][/\ ~IsNil(o.err) => (o'.err = o.err /\ o'.out = o.out /\ o'.c = o.c)
       /\ (IsNil(o.err) /\ ~IsNil(o'.err)) =>
             (o'.err = WriteErr /\ o'.out.calls = o'.out.failAt)
       /\ \A k \in DOMAIN tmps : IsNil(tmps[k].err)]_vars

\* The first write of the run failed, in the first declaration; Writef has
\* since been called for a later node, past a comment that is still
\* pending, and nothing is in the output.
C14_Witness ==
    /\ ~IsNil(o.err)
    /\ o.out.failAt = 1
    /\ o.out.buf = <<>>
    /\ f.Imports = <<>>
    /\ idx = 1
    /\ pc = "indecl"
    /\ wmax > f.Decls[1].pos
    /\ o.c # <<>>
    /\ o.c[1].pos > f.Decls[1].pos
    /\ o.c[1].pos < wmax

\* The receiver or a parameter of the function has a variadic type.
HasVariadic(fd) ==
    /\ fd.kind = "FuncDecl"
    /\ \/ fd.Recv.kind # "nil" /\ \E i \in DOMAIN fd.Recv.List :
                                      fd.Recv.List[i].Type.kind = "Ellipsis"
       \/ \E i \in DOMAIN fd.Type.Params.List : fd.Type.Params.List[i].Type.kind = "Ellipsis"

CallWrite ==
    /\ pc = "indecl"
    /\ stack[1].fn = "handleCallExpr"
    /\ stack[1].out = 0
    /\ stack[1].code[1].op = "WritefCall"

\* Group g lies inside the argument list of that call: after the start of
\* the call and before the start of its last argument (out.lastNode).
InsideArgs(g) == stack[1].n.pos < g.pos /\ g.pos < o.lastNode

\* Group g is pending in the list c.
Pending(g, c) == \E i \in DOMAIN c : c[i] = g

(* C16: rendering the arguments of a call leaves the main sink untouched.  *)
(* A call of Writef on a temporary sink changes neither the main writer    *)
(* nor the main pending list; a temporary sink has an empty comment list   *)
(* and its buffer, from which the argument texts are taken, holds no       *)
(* comment line; when the call is written to the main sink, the groups     *)
(* inside its argument list are pending before and after, and what a       *)
(* successful write adds to the output ends with the one chunk             *)
(* callee(arg1, arg2, ...) and holds no line of those groups; a group      *)
(* leaves the main pending list only in a call of Writef on the main sink  *)
(* for a node that starts after it.                                        *)
C16_ArgsLeaveMainUntouched ==
    [][/\ TmpCall => (o'.out = o.out /\ o'.c = o.c)
       /\ \A k \in DOMAIN tmps :
             /\ tmps[k].c = <<>>
             /\ \A i \in DOMAIN tmps[k].out.buf : IsText(tmps[k].out.buf[i])
       /\ (CallWrite /\ IsNil(o.err)) =>
             /\ \A g \in DOMAIN f.Comments :
                   InsideArgs(f.Comments[g]) =>
                       /\ Pending(f.Comments[g], o.c)
                       /\ Pending(f.Comments[g], o'.c)
                       /\ \A i \in DOMAIN Written :
                             Written[i].src \notin LinePos(f.Comments[g])
             /\ IsNil(o'.err) =>
                   /\ Written # <<>>
                   /\ Written[Len(Written)] = Chunk(CallText, CallNode.pos)
       /\ \A g \in DOMAIN o.c :
             ~Pending(o.c[g], o'.c) => (MainCall /\ CallNode.pos > o.c[g].pos)]_vars

\* A call with a comment inside its argument list has just been written:
\* the call text is the last chunk of the output and the comment, which
\* starts after the call and before its last argument, is still pending.
C16_Witness ==
    /\ IsNil(o.err)
    /\ o.out.buf # <<>>
    /\ o.out.buf[Len(o.out.buf)].s = "analogWrite(led, brightness)"
    /\ o.c # <<>>
    /\ o.c[1].pos > o.out.buf[Len(o.out.buf)].src
    /\ o.c[1].pos < o.lastNode

====
